---------------------------- MODULE Spec2Model ----------------------------
(* Composite mbox locking (src/lib-storage/index/mbox/mbox-lock.c) as a     *)
(* state machine: several processes, each with one mailbox handle            *)
(* (struct index_mailbox) and one lock session (struct mbox_lock_context),   *)
(* sharing the OS-level lock state of one mailbox file.                      *)
EXTENDS Integers, Sequences, FiniteSets, TLC

(***************************************************************************)
(* enum mbox_lock_type and the fcntl lock kinds                            *)
(***************************************************************************)
MBOX_LOCK_DOTLOCK == 0
MBOX_LOCK_FCNTL == 1
MBOX_LOCK_FLOCK == 2
MBOX_LOCK_LOCKF == 3
MBOX_LOCK_COUNT == 4
\* (enum mbox_lock_type)-1, the list terminator
LIST_END == -1

F_UNLCK == "F_UNLCK"
F_RDLCK == "F_RDLCK"
F_WRLCK == "F_WRLCK"
LockKinds == {F_UNLCK, F_RDLCK, F_WRLCK}

LockTypes == 0 .. (MBOX_LOCK_COUNT - 1)
FdTypes == LockTypes \ {MBOX_LOCK_DOTLOCK}

(***************************************************************************)
(* Bounds of the model                                                     *)
(***************************************************************************)
\* most lock tokens one handle has outstanding
MaxRefs == 2
\* a new acquisition starts only while the epochs (mbox_lock_id) of all
\* handles add up to at most this
MaxLockId == 4
\* most progress callbacks delivered during one dotlock wait
MaxCallbacks == 2
\* most OS errors (a failing lock syscall, stat or open) in one run
MaxOsErrors == 1
\* how many slots behind a list array a walk is followed into
MaxBeyond == 1

Procs == {"p1", "p2"}

VARIABLES
    \* process-wide settings; beyond is the memory that follows the array
    \* write_locks, as a walk that runs off the array reads it
    read_locks, write_locks, lock_settings_initialized, beyond,
    \* struct index_mailbox, per process
    mbox_lock_type, mbox_shared_locks, mbox_excl_locks, mbox_lock_id,
    mbox_dotlock_ino,
    \* struct mbox_lock_context, per process (one session at a time)
    lock_status, checked_file, ctx_lock_type, dotlock_last_stale,
    \* position of each process inside mbox_lock / mbox_unlock
    pc, phase, drop_locks, list_lock_type, list_i, ret, upd_ret,
    \* the dotlock wait (file_lock_dotlock) and the probe dotlock_callback
    \* is in the middle of
    override_ok, ncallbacks, probe,
    \* OS-level lock state: os_held[p][t] is the mode p holds on the kernel
    \* lock t (the dotlock file, the fcntl lock, the flock lock);
    \* oserrs counts the OS errors so far
    os_held, oserrs,
    \* history: the current/last API call, the backend calls it made, the
    \* tokens issued, the last progress callback
    call, calls, tokens, stale_tokens, last_cb

(***************************************************************************)
(* Lock method lists.  A list is kept as the sequence of its entries; the  *)
(* C arrays hold MBOX_LOCK_COUNT+1 slots, statically zero-initialised,     *)
(* with the terminator written right after the last entry.  An index       *)
(* above MBOX_LOCK_COUNT is outside the array: the read is undefined and   *)
(* yields whatever the build placed there (beyond), a backend id, the      *)
(* terminator or a value that is no backend id at all.                     *)
(***************************************************************************)
\* a value that is neither a backend id nor the terminator
NOT_A_TYPE == 600
\* stands for the slots further out than the model follows a walk
BEYOND_END == -2

BeyondValues == (0 .. (MBOX_LOCK_COUNT - 1)) \cup {LIST_END, NOT_A_TYPE}

At(list, i) ==
    IF i < Len(list) THEN list[i + 1]
    ELSE IF i = Len(list) THEN LIST_END
    ELSE IF i <= MBOX_LOCK_COUNT THEN MBOX_LOCK_DOTLOCK
    ELSE IF i - MBOX_LOCK_COUNT <= Len(beyond) THEN beyond[i - MBOX_LOCK_COUNT]
    ELSE BEYOND_END

RECURSIVE SeqsOfLen(_)
SeqsOfLen(n) ==
    IF n = 0 THEN {<<>>}
    ELSE {Append(s, t) : s \in SeqsOfLen(n - 1), t \in LockTypes}

NoDup(s) == \A a, b \in 1 .. Len(s) : a # b => s[a] # s[b]

\* what mbox_read_lock_methods accepts: known names, no duplicates
AllLists == {s \in UNION {SeqsOfLen(n) : n \in 0 .. MBOX_LOCK_COUNT} : NoDup(s)}

\* the scan of mbox_init_lock_settings: the final value of r
RECURSIVE ScanOrderMut(_, _, _, _)
ScanOrderMut(rl, wl, r, w) ==
    IF At(rl, r) = LIST_END THEN r
    ELSE IF \E k \in 1 .. Len(wl) : wl[k] = At(rl, r)
         THEN ScanOrderMut(rl, wl, r + 1, w)
         ELSE r

RECURSIVE ScanOrder(_, _, _, _)
ScanOrder(rl, wl, r, w) ==
    IF At(wl, w) = LIST_END THEN r
    ELSE IF At(rl, r) = LIST_END THEN r
    ELSE ScanOrder(rl, wl, IF At(rl, r) = At(wl, w) THEN r + 1 ELSE r, w + 1)

\* TRUE iff mbox_init_lock_settings does not call i_fatal
SettingsValid(rl, wl) == At(rl, ScanOrder(rl, wl, 0, 0)) = LIST_END

\* the settings the lock/unlock model runs under (MBOX_READ_LOCKS,
\* MBOX_WRITE_LOCKS): the defaults
Configs ==
    { << <<MBOX_LOCK_FCNTL>>, <<MBOX_LOCK_DOTLOCK, MBOX_LOCK_FCNTL>> >> }

\* a write order with a third backend after the defaults
FlockConfigs ==
    { << <<MBOX_LOCK_FCNTL>>, <<MBOX_LOCK_DOTLOCK, MBOX_LOCK_FCNTL, MBOX_LOCK_FLOCK>> >> }

\* a write order with lockf, whose kernel lock is the fcntl lock
LockfConfigs ==
    { << <<MBOX_LOCK_FCNTL>>, <<MBOX_LOCK_DOTLOCK, MBOX_LOCK_LOCKF, MBOX_LOCK_FCNTL>> >> }

\* a write order where the probe of dotlock_callback starts behind the
\* terminator and runs off the array
BeyondConfigs ==
    { << <<MBOX_LOCK_FLOCK>>, <<MBOX_LOCK_FLOCK, MBOX_LOCK_DOTLOCK>> >> }

\* what the memory behind write_locks may hold
RECURSIVE BeyondOfLen(_)
BeyondOfLen(n) ==
    IF n = 0 THEN {<<>>}
    ELSE {Append(s, v) : s \in BeyondOfLen(n - 1), v \in BeyondValues}

AllBeyond == BeyondOfLen(MaxBeyond)
ZeroBeyond == [k \in 1 .. MaxBeyond |-> 0]

\* write orders where the dotlock is not the first backend
ProbeConfigs ==
    { << <<MBOX_LOCK_FCNTL>>, <<MBOX_LOCK_FCNTL, MBOX_LOCK_DOTLOCK>> >>,
      << <<MBOX_LOCK_FCNTL>>, <<MBOX_LOCK_FLOCK, MBOX_LOCK_DOTLOCK, MBOX_LOCK_FCNTL>> >> }

cfgvars == <<read_locks, write_locks, lock_settings_initialized, beyond>>
hdlvars == <<mbox_lock_type, mbox_shared_locks, mbox_excl_locks, mbox_lock_id,
             mbox_dotlock_ino>>
ctxvars == <<lock_status, checked_file, ctx_lock_type, dotlock_last_stale>>
posvars == <<pc, phase, drop_locks, list_lock_type, list_i, ret, upd_ret>>
dotvars == <<override_ok, ncallbacks, probe>>
histvars == <<call, calls, tokens, stale_tokens, last_cb>>
vars == <<cfgvars, hdlvars, ctxvars, posvars, dotvars, os_held, oserrs, histvars>>

ZeroStatus == [t \in LockTypes |-> 0]
NoCall == [op |-> "none", arg |-> F_UNLCK, id |-> 0, st |-> "none", ret |-> 0,
           token |-> 0, level0 |-> F_UNLCK, shared0 |-> 0, excl0 |-> 0, id0 |-> 0,
           stale_arg |-> FALSE, clean0 |-> TRUE]
\* no probe running.  pass: the pass the probe is in; stale, idx: the
\* callback's arguments and start index; i, ret, stopped: the loop of
\* mbox_lock_list; live, ids: whether a live holder was there when the
\* callback started and the epochs of all handles then (history)
NoProbe == [pass |-> "none", stale |-> 0, idx |-> 0, live |-> FALSE,
            ids |-> <<>>, i |-> 0, ret |-> 0, stopped |-> FALSE]
NoCb == [stale |-> 0, cont |-> TRUE, probed |-> FALSE, idx |-> 0,
         live |-> FALSE, probe_ret |-> 0]

\* a fresh process: handle Unlocked, nothing held
InitProcs ==
    /\ mbox_lock_type = [p \in Procs |-> F_UNLCK]
    /\ mbox_shared_locks = [p \in Procs |-> 0]
    /\ mbox_excl_locks = [p \in Procs |-> 0]
    /\ mbox_lock_id = [p \in Procs |-> 0]
    /\ mbox_dotlock_ino = [p \in Procs |-> 0]
    /\ lock_status = [p \in Procs |-> ZeroStatus]
    /\ checked_file = [p \in Procs |-> FALSE]
    /\ ctx_lock_type = [p \in Procs |-> F_UNLCK]
    /\ dotlock_last_stale = [p \in Procs |-> 0]
    /\ pc = [p \in Procs |-> "idle"]
    /\ phase = [p \in Procs |-> "none"]
    /\ drop_locks = [p \in Procs |-> FALSE]
    /\ list_lock_type = [p \in Procs |-> F_UNLCK]
    /\ list_i = [p \in Procs |-> 0]
    /\ ret = [p \in Procs |-> 0]
    /\ upd_ret = [p \in Procs |-> 0]
    /\ override_ok = [p \in Procs |-> FALSE]
    /\ ncallbacks = [p \in Procs |-> 0]
    /\ probe = [p \in Procs |-> NoProbe]
    /\ os_held = [p \in Procs |-> [t \in LockTypes |-> F_UNLCK]]
    /\ oserrs = 0
    /\ call = [p \in Procs |-> NoCall]
    /\ calls = [p \in Procs |-> <<>>]
    /\ tokens = [p \in Procs |-> {}]
    /\ stale_tokens = [p \in Procs |-> {}]
    /\ last_cb = [p \in Procs |-> NoCb]

(***************************************************************************)
(* Settings: mbox_init_lock_settings on every pair of parsed lists         *)
(***************************************************************************)
InitSettings ==
    /\ read_locks \in AllLists
    /\ write_locks \in AllLists
    /\ beyond = ZeroBeyond
    /\ lock_settings_initialized = "no"
    /\ InitProcs

\* mbox_init_lock_settings: validate the two lists; i_fatal on a mismatch
mbox_init_lock_settings ==
    /\ lock_settings_initialized = "no"
    /\ lock_settings_initialized' =
           IF SettingsValid(read_locks, write_locks) THEN "yes" ELSE "fatal"
    /\ UNCHANGED <<read_locks, write_locks, beyond, hdlvars, ctxvars, posvars, dotvars,
                   os_held, oserrs, histvars>>

NextSettings == mbox_init_lock_settings

SpecSettings == InitSettings /\ [][NextSettings]_vars

(***************************************************************************)
(* Helpers shared by the lock/unlock actions                               *)
(***************************************************************************)
\* lock_status = lock_type != F_UNLCK (mbox_lock_list)
Want(lock_type) == IF lock_type # F_UNLCK THEN 1 ELSE 0

\* the list mbox_lock_list walks
ListFor(lock_type, level) ==
    IF lock_type = F_WRLCK \/ (lock_type = F_UNLCK /\ level = F_WRLCK)
    THEN write_locks ELSE read_locks

\* the loop of mbox_lock_list up to the next backend it has to call: entries
\* whose recorded status already equals the target are skipped
RECURSIVE NextIdx(_, _, _, _)
NextIdx(status, list, i, want) ==
    IF At(list, i) \notin LockTypes THEN i
    ELSE IF status[At(list, i)] = want THEN NextIdx(status, list, i + 1, want)
    ELSE i

\* the mode a backend takes at the OS for a request: the dotlock and lockf
\* (F_TLOCK) know no shared mode
OsMode(type, lock_type) ==
    IF lock_type = F_UNLCK THEN F_UNLCK
    ELSE IF type \in {MBOX_LOCK_DOTLOCK, MBOX_LOCK_LOCKF} THEN F_WRLCK
    ELSE lock_type

\* the kernel lock a backend works on: lockf() takes and drops the
\* process's fcntl (POSIX) lock on the file, flock() a lock of its own
OsSlot(type) == IF type = MBOX_LOCK_LOCKF THEN MBOX_LOCK_FCNTL ELSE type

\* another process holds the kernel lock of type in a mode that excludes mode
Conflict(p, type, mode) ==
    \E q \in Procs \ {p} :
        /\ os_held[q][OsSlot(type)] # F_UNLCK
        /\ (mode = F_WRLCK \/ os_held[q][OsSlot(type)] = F_WRLCK)

\* Return codes of the fd backends.  nonblock: max_wait_time == 0;
\* conflict: the lock is held elsewhere in an excluding mode (for a call
\* with a deadline: until the deadline); oserr: the syscall, or the
\* stat/open of mbox_file_open_latest, fails.
mbox_lock_fcntl(lock_type, nonblock, conflict, oserr) ==
    IF oserr THEN -1
    ELSE IF lock_type = F_UNLCK THEN 1
    ELSE IF conflict THEN (IF nonblock THEN -1 ELSE 0)
    ELSE 1

mbox_lock_flock(lock_type, nonblock, conflict, oserr) ==
    IF oserr THEN -1
    ELSE IF lock_type = F_UNLCK THEN 1
    ELSE IF conflict THEN 0
    ELSE 1

mbox_lock_lockf(lock_type, nonblock, conflict, oserr) ==
    IF oserr THEN -1
    ELSE IF lock_type = F_UNLCK THEN 1
    ELSE IF conflict THEN 0
    ELSE 1

\* Whether the call blocks.  mbox_lock_fcntl waits in fcntl(F_SETLKW)
\* whatever the deadline is and looks at the clock only once the alarm
\* interrupted it; mbox_lock_flock and mbox_lock_lockf sleep only while the
\* deadline has not passed.  expired: max_wait_time <= now at the call.
mbox_lock_fcntl_waits(lock_type, nonblock, conflict, expired) ==
    lock_type # F_UNLCK /\ ~nonblock /\ conflict

mbox_lock_flock_waits(lock_type, nonblock, conflict, expired) ==
    lock_type # F_UNLCK /\ ~nonblock /\ conflict /\ ~expired

mbox_lock_lockf_waits(lock_type, nonblock, conflict, expired) ==
    lock_type # F_UNLCK /\ ~nonblock /\ conflict /\ ~expired

FdWaits(type, lock_type, nonblock, conflict, expired) ==
    IF type = MBOX_LOCK_FCNTL
    THEN mbox_lock_fcntl_waits(lock_type, nonblock, conflict, expired)
    ELSE IF type = MBOX_LOCK_FLOCK
    THEN mbox_lock_flock_waits(lock_type, nonblock, conflict, expired)
    ELSE mbox_lock_lockf_waits(lock_type, nonblock, conflict, expired)

\* the guard of mbox_file_open_latest: the identity check is due
CheckDueMut(checked, lock_type) == lock_type # F_UNLCK

CheckDue(checked, lock_type) == ~checked /\ lock_type # F_UNLCK

\* mbox_file_open_latest: its return value, ctx->checked_file afterwards and
\* what became of the identity check ("none": not run, "ok", "fail");
\* openerr: stat() or mbox_file_open() fails
mbox_file_open_latest(checked, lock_type, openerr) ==
    IF ~CheckDue(checked, lock_type)
    THEN [ret |-> 0, checked |-> checked, chk |-> "none"]
    ELSE IF openerr
    THEN [ret |-> -1, checked |-> checked, chk |-> "fail"]
    ELSE [ret |-> 0, checked |-> TRUE, chk |-> "ok"]

\* mbox_lock_list leaves its loop on this result
ListStopsMut(r) == r < 0

ListStops(r) == r <= 0

\* one backend call as the log keeps it: the backend, the target, the
\* pass (for a probe, cb numbers the callback that ran it), the list index,
\* the status recorded before, the call's inputs,
\* whether its lock syscall failed, whether it blocked, the identity check
\* and the result (2: not back yet)
LogEntry(type, lock_type, ph, cb, i, had, nonblock, conflict, expired, oserr,
         waited, chk, r) ==
    [type |-> type, lock_type |-> lock_type, phase |-> ph, cb |-> cb, i |-> i,
     had |-> had,
     nonblock |-> nonblock, conflict |-> conflict, expired |-> expired,
     oserr |-> oserr, waited |-> waited, chk |-> chk, ret |-> r]

\* lock_data[type].func for the fd backends
FdFunc(type, lock_type, nonblock, conflict, oserr) ==
    IF type = MBOX_LOCK_FCNTL THEN mbox_lock_fcntl(lock_type, nonblock, conflict, oserr)
    ELSE IF type = MBOX_LOCK_FLOCK THEN mbox_lock_flock(lock_type, nonblock, conflict, oserr)
    ELSE mbox_lock_lockf(lock_type, nonblock, conflict, oserr)

\* lock_id & ~1
ClearLow(lock_id) == lock_id - (lock_id % 2)

\* ibox->mbox_lock_type = lock_type, set by mbox_update_locking before it
\* walks the list
UpdateLevelMut(level, lock_type) == level

UpdateLevel(level, lock_type) == lock_type

\* mbox_lock runs mbox_update_locking only from level F_UNLCK
NeedsAcquireMut(level) == level # F_WRLCK

NeedsAcquire(level) == level = F_UNLCK

\* the i_assert conditions of mbox_lock
LockAssertMut(level, lock_type) == TRUE

LockAssert(level, lock_type) ==
    /\ lock_type \in {F_RDLCK, F_WRLCK}
    /\ (lock_type = F_RDLCK \/ level # F_RDLCK)

Entry(p, op, arg, id) ==
    [op |-> op, arg |-> arg, id |-> id, st |-> "pending", ret |-> 0, token |-> 0,
     level0 |-> mbox_lock_type[p], shared0 |-> mbox_shared_locks[p],
     excl0 |-> mbox_excl_locks[p], id0 |-> mbox_lock_id[p],
     stale_arg |-> (op = "unlock" /\ id \in stale_tokens[p]),
     clean0 |-> (mbox_dotlock_ino[p] = 0
                 /\ \A t \in LockTypes : os_held[p][t] = F_UNLCK)]

Returned(c, r, tok) == [c EXCEPT !.st = "returned", !.ret = r, !.token = tok]

\* i_assert failure: i_panic aborts the process.  The handle is left as it
\* was; the kernel drops the dead process's fd locks, the dotlock file stays.
Abort(p, c) ==
    /\ pc' = [pc EXCEPT ![p] = "aborted"]
    /\ call' = [call EXCEPT ![p] = [c EXCEPT !.st = "assert"]]
    /\ calls' = [calls EXCEPT ![p] = <<>>]
    /\ os_held' = [os_held EXCEPT ![p] =
           [t \in LockTypes |-> IF t \in FdTypes THEN F_UNLCK ELSE os_held[p][t]]]
    /\ UNCHANGED <<cfgvars, hdlvars, ctxvars, phase, drop_locks, list_lock_type,
                   list_i, ret, upd_ret, dotvars, oserrs, tokens, stale_tokens,
                   last_cb>>

\* an API call returns: the session (a stack variable) is gone
Leave(p) ==
    /\ pc' = [pc EXCEPT ![p] = "idle"]
    /\ phase' = [phase EXCEPT ![p] = "none"]
    /\ drop_locks' = [drop_locks EXCEPT ![p] = FALSE]
    /\ list_lock_type' = [list_lock_type EXCEPT ![p] = F_UNLCK]
    /\ list_i' = [list_i EXCEPT ![p] = 0]
    /\ ret' = [ret EXCEPT ![p] = 0]
    /\ upd_ret' = [upd_ret EXCEPT ![p] = 0]
    /\ lock_status' = [lock_status EXCEPT ![p] = ZeroStatus]
    /\ checked_file' = [checked_file EXCEPT ![p] = FALSE]
    /\ ctx_lock_type' = [ctx_lock_type EXCEPT ![p] = F_UNLCK]
    /\ dotlock_last_stale' = [dotlock_last_stale EXCEPT ![p] = 0]
    /\ override_ok' = [override_ok EXCEPT ![p] = FALSE]
    /\ ncallbacks' = [ncallbacks EXCEPT ![p] = 0]
    /\ UNCHANGED probe
    /\ calls' = [calls EXCEPT ![p] = <<>>]
    /\ last_cb' = [last_cb EXCEPT ![p] = NoCb]

\* mbox_lock_list is entered: memset-fresh or prepared status, index idx 0
EnterList(p, ph, lock_type, status) ==
    /\ pc' = [pc EXCEPT ![p] = "list"]
    /\ phase' = [phase EXCEPT ![p] = ph]
    /\ list_lock_type' = [list_lock_type EXCEPT ![p] = lock_type]
    /\ ctx_lock_type' = [ctx_lock_type EXCEPT ![p] = lock_type]
    /\ list_i' = [list_i EXCEPT ![p] = 0]
    /\ ret' = [ret EXCEPT ![p] = 0]
    /\ lock_status' = [lock_status EXCEPT ![p] = status]

\* the lock_status mbox_update_locking prepares before a demotion: every
\* slot 1, the read list's slots 0
DemoteStatus ==
    [t \in LockTypes |->
        IF \E k \in 1 .. Len(read_locks) : read_locks[k] = t THEN 0 ELSE 1]

\* the lock_status mbox_update_locking prepares before dropping the
\* write-only locks: the write list's slots 1, the read list's slots 0
DropStatus ==
    [t \in LockTypes |->
        IF \E k \in 1 .. Len(read_locks) : read_locks[k] = t THEN 0
        ELSE IF \E k \in 1 .. Len(write_locks) : write_locks[k] = t THEN 1
        ELSE 0]

AllStatus == [t \in LockTypes |-> 1]

(***************************************************************************)
(* mbox_lock                                                               *)
(***************************************************************************)
RECURSIVE SumOver(_, _)
SumOver(f, S) ==
    IF S = {} THEN 0
    ELSE LET x == CHOOSE y \in S : TRUE IN f[x] + SumOver(f, S \ {x})

TotalLockId == SumOver(mbox_lock_id, Procs)

\* mbox_lock on a handle that is not Unlocked: only a ref count moves
MboxLockRef(p, lock_type) ==
    LET tok == IF lock_type = F_RDLCK THEN mbox_lock_id[p] ELSE mbox_lock_id[p] + 1
    IN  /\ mbox_shared_locks' = [mbox_shared_locks EXCEPT ![p] =
               IF lock_type = F_RDLCK THEN @ + 1 ELSE @]
        /\ mbox_excl_locks' = [mbox_excl_locks EXCEPT ![p] =
               IF lock_type = F_RDLCK THEN @ ELSE @ + 1]
        /\ tokens' = [tokens EXCEPT ![p] = @ \cup {tok}]
        /\ call' = [call EXCEPT ![p] = Returned(Entry(p, "lock", lock_type, 0), 1, tok)]
        /\ calls' = [calls EXCEPT ![p] = <<>>]
        /\ UNCHANGED <<cfgvars, mbox_lock_type, mbox_lock_id, mbox_dotlock_ino,
                       ctxvars, posvars, dotvars, os_held, oserrs, stale_tokens, last_cb>>

\* mbox_lock on an Unlocked handle: mbox_update_locking starts a session
MboxLockAcquire(p, lock_type) ==
    /\ mbox_lock_type' = [mbox_lock_type EXCEPT ![p] = UpdateLevel(@, lock_type)]
    /\ EnterList(p, "lock", lock_type,
                 IF mbox_lock_type[p] = F_WRLCK THEN DemoteStatus ELSE ZeroStatus)
    /\ drop_locks' = [drop_locks EXCEPT ![p] = (mbox_lock_type[p] = F_WRLCK)]
    /\ checked_file' = [checked_file EXCEPT ![p] = FALSE]
    /\ dotlock_last_stale' = [dotlock_last_stale EXCEPT ![p] = 0]
    /\ call' = [call EXCEPT ![p] = Entry(p, "lock", lock_type, 0)]
    /\ calls' = [calls EXCEPT ![p] = <<>>]
    /\ last_cb' = [last_cb EXCEPT ![p] = NoCb]
    /\ UNCHANGED <<cfgvars, mbox_shared_locks, mbox_excl_locks, mbox_lock_id,
                   mbox_dotlock_ino, upd_ret, dotvars, os_held, oserrs, tokens,
                   stale_tokens>>

MboxLock(p, lock_type) ==
    /\ pc[p] = "idle"
    /\ lock_settings_initialized = "yes"
    /\ mbox_shared_locks[p] + mbox_excl_locks[p] < MaxRefs
    /\ NeedsAcquire(mbox_lock_type[p]) => TotalLockId <= MaxLockId
    /\ IF ~LockAssert(mbox_lock_type[p], lock_type)
       THEN Abort(p, Entry(p, "lock", lock_type, 0))
       ELSE IF NeedsAcquire(mbox_lock_type[p])
       THEN MboxLockAcquire(p, lock_type)
       ELSE MboxLockRef(p, lock_type)

(***************************************************************************)
(* mbox_unlock                                                             *)
(***************************************************************************)
\* a ref count drops and nothing else is due
MboxUnlockRef(p, lock_id) ==
    /\ mbox_shared_locks' = [mbox_shared_locks EXCEPT ![p] =
           IF lock_id % 2 = 1 THEN @ ELSE @ - 1]
    /\ mbox_excl_locks' = [mbox_excl_locks EXCEPT ![p] =
           IF lock_id % 2 = 1 THEN @ - 1 ELSE @]
    /\ call' = [call EXCEPT ![p] = Returned(Entry(p, "unlock", F_UNLCK, lock_id), 0, 0)]
    /\ calls' = [calls EXCEPT ![p] = <<>>]
    /\ UNCHANGED <<cfgvars, mbox_lock_type, mbox_lock_id, mbox_dotlock_ino,
                   ctxvars, posvars, dotvars, os_held, oserrs, tokens,
                   stale_tokens, last_cb>>

\* the last exclusive token goes while shared ones remain:
\* mbox_update_locking(ibox, F_RDLCK) from level F_WRLCK
MboxUnlockDemote(p, lock_id) ==
    /\ mbox_excl_locks' = [mbox_excl_locks EXCEPT ![p] = @ - 1]
    /\ mbox_lock_type' = [mbox_lock_type EXCEPT ![p] = UpdateLevel(@, F_RDLCK)]
    /\ EnterList(p, "demote", F_RDLCK,
                 IF mbox_lock_type[p] = F_WRLCK THEN DemoteStatus ELSE ZeroStatus)
    /\ drop_locks' = [drop_locks EXCEPT ![p] = (mbox_lock_type[p] = F_WRLCK)]
    /\ checked_file' = [checked_file EXCEPT ![p] = FALSE]
    /\ dotlock_last_stale' = [dotlock_last_stale EXCEPT ![p] = 0]
    /\ call' = [call EXCEPT ![p] = Entry(p, "unlock", F_UNLCK, lock_id)]
    /\ calls' = [calls EXCEPT ![p] = <<>>]
    /\ last_cb' = [last_cb EXCEPT ![p] = NoCb]
    /\ UNCHANGED <<cfgvars, mbox_shared_locks, mbox_lock_id, mbox_dotlock_ino,
                   upd_ret, dotvars, os_held, oserrs, tokens, stale_tokens>>

\* all tokens gone: mbox_unlock_files with every status slot 1
MboxUnlockRelease(p, lock_id) ==
    /\ mbox_shared_locks' = [mbox_shared_locks EXCEPT ![p] =
           IF lock_id % 2 = 1 THEN @ ELSE @ - 1]
    /\ mbox_excl_locks' = [mbox_excl_locks EXCEPT ![p] =
           IF lock_id % 2 = 1 THEN @ - 1 ELSE @]
    /\ EnterList(p, "release", F_UNLCK, AllStatus)
    /\ drop_locks' = [drop_locks EXCEPT ![p] = FALSE]
    /\ checked_file' = [checked_file EXCEPT ![p] = FALSE]
    /\ dotlock_last_stale' = [dotlock_last_stale EXCEPT ![p] = 0]
    /\ call' = [call EXCEPT ![p] = Entry(p, "unlock", F_UNLCK, lock_id)]
    /\ calls' = [calls EXCEPT ![p] = <<>>]
    /\ last_cb' = [last_cb EXCEPT ![p] = NoCb]
    /\ UNCHANGED <<cfgvars, mbox_lock_type, mbox_lock_id, mbox_dotlock_ino,
                   upd_ret, dotvars, os_held, oserrs, tokens, stale_tokens>>

\* the last shared token went: exclusive tokens keep the lock as it is
SharedGoneKeepsMut(excl) == FALSE

SharedGoneKeeps(excl) == excl > 0

\* the epoch check of mbox_unlock
EpochOk(p, lock_id) == mbox_lock_id[p] = ClearLow(lock_id)

MboxUnlock(p, lock_id) ==
    /\ pc[p] = "idle"
    /\ lock_settings_initialized = "yes"
    /\ IF ~EpochOk(p, lock_id)
       THEN Abort(p, Entry(p, "unlock", F_UNLCK, lock_id))
       ELSE IF lock_id % 2 = 1
       THEN IF ~(mbox_excl_locks[p] > 0)
            THEN Abort(p, Entry(p, "unlock", F_UNLCK, lock_id))
            ELSE IF mbox_excl_locks[p] - 1 > 0
            THEN MboxUnlockRef(p, lock_id)
            ELSE IF mbox_shared_locks[p] > 0
            THEN MboxUnlockDemote(p, lock_id)
            ELSE MboxUnlockRelease(p, lock_id)
       ELSE IF ~(mbox_shared_locks[p] > 0)
            THEN Abort(p, Entry(p, "unlock", F_UNLCK, lock_id))
            ELSE IF mbox_shared_locks[p] - 1 > 0
            THEN MboxUnlockRef(p, lock_id)
            ELSE IF SharedGoneKeeps(mbox_excl_locks[p])
            THEN MboxUnlockRef(p, lock_id)
            ELSE MboxUnlockRelease(p, lock_id)

(***************************************************************************)
(* mbox_lock_list: one backend call per step                               *)
(***************************************************************************)
CurList(p) == ListFor(list_lock_type[p], mbox_lock_type[p])
CurIdx(p) == NextIdx(lock_status[p], CurList(p), list_i[p], Want(list_lock_type[p]))
CurType(p) == At(CurList(p), CurIdx(p))

\* max_wait_time == 0: every pass but the one mbox_update_locking starts
NonBlock(p) == phase[p] \notin {"lock", "demote"}

DotlockHeldByOther(p) ==
    \E q \in Procs \ {p} : os_held[q][MBOX_LOCK_DOTLOCK] # F_UNLCK

\* the fd backend at the current index is called and returns r.
\* oserr: "open" (the stat/open of mbox_file_open_latest fails), "sys" (the
\* lock syscall fails) or "none"; expired: the deadline has passed already
FdCall(p, oserr, expired) ==
    LET type == CurType(p)
        lt == list_lock_type[p]
        conflict == lt # F_UNLCK /\ Conflict(p, type, OsMode(type, lt))
        ol == mbox_file_open_latest(checked_file[p], lt, oserr = "open")
        r == IF ol.ret < 0 THEN -1
             ELSE FdFunc(type, lt, NonBlock(p), conflict, oserr = "sys")
        waited == oserr = "none"
                  /\ FdWaits(type, lt, NonBlock(p), conflict, expired)
    IN  /\ pc[p] = "list"
        /\ type \in FdTypes
        /\ oserr = "open" => CheckDue(checked_file[p], lt)
        /\ oserr # "none" => oserrs < MaxOsErrors
        /\ oserrs' = IF oserr # "none" THEN oserrs + 1 ELSE oserrs
        /\ lock_status' = [lock_status EXCEPT ![p][type] = Want(lt)]
        /\ calls' = [calls EXCEPT ![p] =
               Append(@, LogEntry(type, lt, phase[p], 0, CurIdx(p),
                                  lock_status[p][type], NonBlock(p), conflict,
                                  expired, oserr = "sys", waited, ol.chk, r))]
        /\ ret' = [ret EXCEPT ![p] = r]
        /\ os_held' = IF r = 1
                      THEN [os_held EXCEPT ![p][OsSlot(type)] = OsMode(type, lt)]
                      ELSE os_held
        /\ checked_file' = [checked_file EXCEPT ![p] = ol.checked]
        /\ list_i' = [list_i EXCEPT ![p] =
               IF ListStops(r) THEN CurIdx(p) ELSE CurIdx(p) + 1]
        /\ pc' = [pc EXCEPT ![p] = IF ListStops(r) THEN "listret" ELSE "list"]
        /\ UNCHANGED <<cfgvars, hdlvars, ctx_lock_type, dotlock_last_stale, phase,
                       drop_locks, list_lock_type, upd_ret, dotvars, call, tokens,
                       stale_tokens, last_cb>>

\* the backend grants or releases the lock
FdApply(p) ==
    /\ pc[p] = "list" /\ CurType(p) \in FdTypes
    /\ ~(list_lock_type[p] # F_UNLCK
         /\ Conflict(p, CurType(p), OsMode(CurType(p), list_lock_type[p])))
    /\ FdCall(p, "none", FALSE)

\* the lock stays held elsewhere until the deadline
FdTimeout(p, expired) ==
    /\ pc[p] = "list" /\ CurType(p) \in FdTypes
    /\ list_lock_type[p] # F_UNLCK
    /\ Conflict(p, CurType(p), OsMode(CurType(p), list_lock_type[p]))
    /\ FdCall(p, "none", expired)

\* the syscall, or the stat/open before it, fails
FdFail(p, oserr) == FdCall(p, oserr, FALSE)

\* mbox_lock_dotlock(F_UNLCK): always returns 1
DotlockRelease(p) ==
    /\ pc[p] = "list"
    /\ CurType(p) = MBOX_LOCK_DOTLOCK
    /\ list_lock_type[p] = F_UNLCK
    /\ lock_status' = [lock_status EXCEPT ![p][MBOX_LOCK_DOTLOCK] = 0]
    /\ calls' = [calls EXCEPT ![p] =
           Append(@, LogEntry(MBOX_LOCK_DOTLOCK, F_UNLCK, phase[p], 0, CurIdx(p),
                              lock_status[p][MBOX_LOCK_DOTLOCK], NonBlock(p),
                              FALSE, FALSE, FALSE, FALSE, "none", 1))]
    /\ mbox_dotlock_ino' = [mbox_dotlock_ino EXCEPT ![p] = 0]
    /\ os_held' = IF mbox_dotlock_ino[p] # 0
                  THEN [os_held EXCEPT ![p][MBOX_LOCK_DOTLOCK] = F_UNLCK]
                  ELSE os_held
    /\ ret' = [ret EXCEPT ![p] = 1]
    /\ list_i' = [list_i EXCEPT ![p] = CurIdx(p) + 1]
    /\ UNCHANGED <<cfgvars, mbox_lock_type, mbox_shared_locks, mbox_excl_locks,
                   mbox_lock_id, checked_file, ctx_lock_type, dotlock_last_stale,
                   pc, phase, drop_locks, list_lock_type, upd_ret, dotvars, oserrs,
                   call, tokens, stale_tokens, last_cb>>

\* the log once the dotlock call that was not back yet returned r
DotlockReturns(lg, r, chk) ==
    [k \in 1 .. Len(lg) |->
        IF lg[k].type = MBOX_LOCK_DOTLOCK /\ lg[k].ret = 2
        THEN [lg[k] EXCEPT !.ret = r, !.chk = chk]
        ELSE lg[k]]

\* the tail of mbox_lock_dotlock once file_lock_dotlock returned 1:
\* mbox_file_open_latest.  lg: the log with the dotlock call in it
DotlockGot(p, k, openerr, lg) ==
    LET ol == mbox_file_open_latest(checked_file[p], list_lock_type[p], openerr)
        r == IF ol.ret < 0 THEN -1 ELSE 1
    IN  /\ openerr => CheckDue(checked_file[p], list_lock_type[p])
                      /\ oserrs < MaxOsErrors
        /\ oserrs' = IF openerr THEN oserrs + 1 ELSE oserrs
        /\ mbox_dotlock_ino' = [mbox_dotlock_ino EXCEPT ![p] = 1]
        /\ os_held' = [q \in Procs |->
               [os_held[q] EXCEPT ![MBOX_LOCK_DOTLOCK] =
                   IF q = p THEN F_WRLCK ELSE F_UNLCK]]
        /\ checked_file' = [checked_file EXCEPT ![p] = ol.checked]
        /\ calls' = [calls EXCEPT ![p] = DotlockReturns(lg, r, ol.chk)]
        /\ ret' = [ret EXCEPT ![p] = r]
        /\ list_i' = [list_i EXCEPT ![p] = IF ListStops(r) THEN k ELSE k + 1]
        /\ pc' = [pc EXCEPT ![p] = IF ListStops(r) THEN "listret" ELSE "list"]
        /\ override_ok' = [override_ok EXCEPT ![p] = FALSE]
        /\ ncallbacks' = [ncallbacks EXCEPT ![p] = 0]
        /\ UNCHANGED probe

\* mbox_lock_dotlock(lock_type != F_UNLCK) is called: already held, or
\* created at once, or the wait inside file_lock_dotlock begins
DotlockLock(p, openerr) ==
    LET busy == mbox_dotlock_ino[p] = 0 /\ DotlockHeldByOther(p)
        lg == Append(calls[p],
                     LogEntry(MBOX_LOCK_DOTLOCK, list_lock_type[p], phase[p],
                              0, CurIdx(p), lock_status[p][MBOX_LOCK_DOTLOCK],
                              NonBlock(p), busy, FALSE, FALSE, busy, "none", 2))
    IN  /\ pc[p] = "list"
        /\ CurType(p) = MBOX_LOCK_DOTLOCK
        /\ list_lock_type[p] # F_UNLCK
        /\ lock_status' = [lock_status EXCEPT ![p][MBOX_LOCK_DOTLOCK] = 1]
        /\ IF mbox_dotlock_ino[p] # 0
           THEN /\ ~openerr
                /\ calls' = [calls EXCEPT ![p] = DotlockReturns(lg, 1, "none")]
                /\ ret' = [ret EXCEPT ![p] = 1]
                /\ list_i' = [list_i EXCEPT ![p] = CurIdx(p) + 1]
                /\ UNCHANGED <<mbox_dotlock_ino, os_held, oserrs, checked_file,
                               dotlock_last_stale, pc, dotvars>>
           ELSE IF ~DotlockHeldByOther(p)
           THEN /\ DotlockGot(p, CurIdx(p), openerr, lg)
                /\ dotlock_last_stale' = [dotlock_last_stale EXCEPT ![p] = -1]
           ELSE /\ ~openerr
                /\ calls' = [calls EXCEPT ![p] = lg]
                /\ dotlock_last_stale' = [dotlock_last_stale EXCEPT ![p] = -1]
                /\ pc' = [pc EXCEPT ![p] = "dotwait"]
                /\ list_i' = [list_i EXCEPT ![p] = CurIdx(p)]
                /\ override_ok' = [override_ok EXCEPT ![p] = FALSE]
                /\ ncallbacks' = [ncallbacks EXCEPT ![p] = 0]
                /\ UNCHANGED probe
                /\ UNCHANGED <<mbox_dotlock_ino, os_held, oserrs, checked_file, ret>>
        /\ UNCHANGED <<cfgvars, mbox_lock_type, mbox_shared_locks, mbox_excl_locks,
                       mbox_lock_id, ctx_lock_type, phase, drop_locks, list_lock_type,
                       upd_ret, call, tokens, stale_tokens, last_cb>>

(***************************************************************************)
(* The dotlock wait: file_lock_dotlock and dotlock_callback                *)
(***************************************************************************)
\* the index dotlock_callback starts its probe at
ProbeIdx(status) ==
    IF \E t \in LockTypes : status[t] # 0
    THEN 1 + CHOOSE t \in LockTypes :
                 status[t] # 0 /\ \A u \in LockTypes : status[u] # 0 => u <= t
    ELSE 0

\* another live process holds, in an excluding mode, a backend of the
\* walked list other than the dotlock
LiveHolder(p) ==
    \E q \in Procs \ {p} : \E k \in 1 .. Len(CurList(p)) :
        /\ pc[q] \notin {"aborted", "crashed"}
        /\ CurList(p)[k] # MBOX_LOCK_DOTLOCK
        /\ os_held[q][OsSlot(CurList(p)[k])] # F_UNLCK
        /\ (OsMode(CurList(p)[k], list_lock_type[p]) = F_WRLCK
            \/ os_held[q][OsSlot(CurList(p)[k])] = F_WRLCK)

\* the test that guards the probe in dotlock_callback
ProbeDue(stale, last_stale) == stale # 0 /\ last_stale = 0

\* dotlock_callback(secs_left, stale, ctx), called by file_lock_dotlock
\* while the dotlock is held elsewhere: it returns at once, or starts the
\* probe, mbox_lock_list(ctx, ctx->lock_type, 0, idx)
dotlock_callback(p, stale) ==
    LET due == ProbeDue(stale, dotlock_last_stale[p])
        idx == ProbeIdx(lock_status[p])
    IN  /\ pc[p] = "dotwait"
        /\ DotlockHeldByOther(p)
        /\ ncallbacks[p] < MaxCallbacks
        /\ ncallbacks' = [ncallbacks EXCEPT ![p] = @ + 1]
        /\ IF due
           THEN /\ pc' = [pc EXCEPT ![p] = "probe"]
                /\ probe' = [probe EXCEPT ![p] =
                       [pass |-> "lock", stale |-> stale, idx |-> idx,
                        live |-> LiveHolder(p), ids |-> mbox_lock_id,
                        i |-> idx, ret |-> 0, stopped |-> FALSE]]
                /\ UNCHANGED <<dotlock_last_stale, override_ok, last_cb>>
           ELSE /\ dotlock_last_stale' = [dotlock_last_stale EXCEPT ![p] = stale]
                /\ override_ok' = [override_ok EXCEPT ![p] = stale # 0]
                /\ last_cb' = [last_cb EXCEPT ![p] =
                       [stale |-> stale, cont |-> TRUE, probed |-> FALSE,
                        idx |-> idx, live |-> LiveHolder(p), probe_ret |-> 0]]
                /\ UNCHANGED <<pc, probe>>
        /\ UNCHANGED <<cfgvars, hdlvars, lock_status, checked_file, ctx_lock_type,
                       phase, drop_locks, list_lock_type, list_i, ret, upd_ret,
                       os_held, oserrs, call, calls, tokens, stale_tokens>>

\* the list a pass of the probe walks, and the backend it has come to
ProbeList(p) == ListFor(ctx_lock_type[p], mbox_lock_type[p])
ProbeAt(p) ==
    NextIdx(lock_status[p], ProbeList(p), probe[p].i, Want(ctx_lock_type[p]))
ProbeType(p) == At(ProbeList(p), ProbeAt(p))
ProbePassOver(p) == probe[p].stopped \/ ProbeType(p) = LIST_END

\* the walk came to a value that is no backend id: lock_data[type].func is
\* called through a wild pointer and the process dies of SIGSEGV; the
\* kernel drops its fd locks
ProbeCrash(p) ==
    /\ pc' = [pc EXCEPT ![p] = "crashed"]
    /\ probe' = [probe EXCEPT ![p] = NoProbe]
    /\ os_held' = [os_held EXCEPT ![p] =
           [t \in LockTypes |-> IF t \in FdTypes THEN F_UNLCK ELSE os_held[p][t]]]
    /\ UNCHANGED <<lock_status, calls, mbox_dotlock_ino, checked_file, oserrs,
                   ctx_lock_type, dotlock_last_stale, override_ok, last_cb>>

\* one backend call of a probe pass, mbox_lock_list with max_wait_time == 0
ProbeCall(p, oserr) ==
    LET type == ProbeType(p)
        lt == ctx_lock_type[p]
        isfd == type # MBOX_LOCK_DOTLOCK
        conflict == isfd /\ lt # F_UNLCK /\ Conflict(p, type, OsMode(type, lt))
        ol == IF isfd
              THEN mbox_file_open_latest(checked_file[p], lt, oserr = "open")
              ELSE [ret |-> 0, checked |-> checked_file[p], chk |-> "none"]
        r == IF ~isfd
             THEN (IF lt = F_UNLCK \/ mbox_dotlock_ino[p] # 0 THEN 1 ELSE 0)
             ELSE IF ol.ret < 0 THEN -1
             ELSE FdFunc(type, lt, TRUE, conflict, oserr = "sys")
    IN  /\ oserr # "none" => isfd /\ oserrs < MaxOsErrors
        /\ oserr = "open" => CheckDue(checked_file[p], lt)
        /\ oserrs' = IF oserr # "none" THEN oserrs + 1 ELSE oserrs
        /\ lock_status' = [lock_status EXCEPT ![p][type] = Want(lt)]
        /\ calls' = [calls EXCEPT ![p] =
               Append(@, LogEntry(type, lt, "probe", ncallbacks[p], ProbeAt(p),
                                  lock_status[p][type], TRUE, conflict, FALSE,
                                  oserr = "sys",
                                  isfd /\ oserr = "none"
                                      /\ FdWaits(type, lt, TRUE, conflict, FALSE),
                                  ol.chk, r))]
        /\ os_held' = IF r = 1 /\ (isfd \/ lt = F_UNLCK)
                      THEN [os_held EXCEPT ![p][OsSlot(type)] = OsMode(type, lt)]
                      ELSE os_held
        /\ mbox_dotlock_ino' = [mbox_dotlock_ino EXCEPT ![p] =
               IF ~isfd /\ lt = F_UNLCK THEN 0 ELSE @]
        /\ checked_file' = [checked_file EXCEPT ![p] = ol.checked]
        /\ probe' = [probe EXCEPT ![p].i = ProbeAt(p) + 1, ![p].ret = r,
                                  ![p].stopped = ListStops(r)]
        /\ UNCHANGED <<pc, ctx_lock_type, dotlock_last_stale, override_ok, last_cb>>

\* a probe pass has returned: the callback refuses the override, or starts
\* the releasing pass mbox_lock_list(ctx, F_UNLCK, 0, idx), or returns TRUE
ProbePassEnd(p) ==
    LET refused == probe[p].pass = "lock" /\ probe[p].ret <= 0
    IN  /\ UNCHANGED <<lock_status, calls, os_held, mbox_dotlock_ino,
                       checked_file, oserrs>>
        /\ IF probe[p].pass = "lock" /\ ~refused
           THEN /\ ctx_lock_type' = [ctx_lock_type EXCEPT ![p] = F_UNLCK]
                /\ probe' = [probe EXCEPT ![p].pass = "undo", ![p].i = probe[p].idx,
                                          ![p].ret = 0, ![p].stopped = FALSE]
                /\ UNCHANGED <<pc, dotlock_last_stale, override_ok, last_cb>>
           ELSE /\ pc' = [pc EXCEPT ![p] = "dotwait"]
                /\ probe' = [probe EXCEPT ![p] = NoProbe]
                /\ dotlock_last_stale' = [dotlock_last_stale EXCEPT ![p] =
                       IF refused THEN 1 ELSE probe[p].stale]
                /\ override_ok' = [override_ok EXCEPT ![p] = ~refused]
                /\ last_cb' = [last_cb EXCEPT ![p] =
                       [stale |-> probe[p].stale, cont |-> ~refused,
                        probed |-> TRUE, idx |-> probe[p].idx,
                        live |-> /\ probe[p].live /\ LiveHolder(p)
                                 /\ probe[p].ids = mbox_lock_id,
                        probe_ret |-> IF refused THEN probe[p].ret ELSE 1]]
                /\ UNCHANGED ctx_lock_type

\* the next step of the probe dotlock_callback is in: a backend call of the
\* running pass, or the end of the pass
dotlock_probe(p, oserr) ==
    /\ pc[p] = "probe"
    /\ probe[p].stopped \/ ProbeType(p) # BEYOND_END
    /\ IF ProbePassOver(p)
       THEN oserr = "none" /\ ProbePassEnd(p)
       ELSE IF ProbeType(p) = NOT_A_TYPE
       THEN oserr = "none" /\ ProbeCrash(p)
       ELSE ProbeCall(p, oserr)
    /\ UNCHANGED <<cfgvars, mbox_lock_type, mbox_shared_locks, mbox_excl_locks,
                   mbox_lock_id, phase, drop_locks, list_lock_type, list_i, ret,
                   upd_ret, ncallbacks, call, tokens, stale_tokens>>

\* file_lock_dotlock: the holder removed its dotlock; ours is created
DotlockCreate(p, openerr) ==
    /\ pc[p] = "dotwait"
    /\ ~DotlockHeldByOther(p)
    /\ DotlockGot(p, list_i[p], openerr, calls[p])
    /\ UNCHANGED <<cfgvars, mbox_lock_type, mbox_shared_locks, mbox_excl_locks,
                   mbox_lock_id, lock_status, ctx_lock_type, dotlock_last_stale,
                   phase, drop_locks, list_lock_type, upd_ret, call, tokens,
                   stale_tokens, last_cb>>

\* file_lock_dotlock: the callback let a stale dotlock be overridden; the
\* holder's dotlock file is replaced by ours
DotlockOverride(p, openerr) ==
    /\ pc[p] = "dotwait"
    /\ DotlockHeldByOther(p)
    /\ override_ok[p]
    /\ DotlockGot(p, list_i[p], openerr, calls[p])
    /\ UNCHANGED <<cfgvars, mbox_lock_type, mbox_shared_locks, mbox_excl_locks,
                   mbox_lock_id, lock_status, ctx_lock_type, dotlock_last_stale,
                   phase, drop_locks, list_lock_type, upd_ret, call, tokens,
                   stale_tokens, last_cb>>

\* file_lock_dotlock returns 0 (timeout) or -1 (error)
DotlockGiveUp(p, r) ==
    /\ pc[p] = "dotwait"
    /\ r = 0 => DotlockHeldByOther(p)
    /\ r < 0 => oserrs < MaxOsErrors
    /\ oserrs' = IF r < 0 THEN oserrs + 1 ELSE oserrs
    /\ ret' = [ret EXCEPT ![p] = r]
    /\ calls' = [calls EXCEPT ![p] = DotlockReturns(@, r, "none")]
    /\ pc' = [pc EXCEPT ![p] = "listret"]
    /\ UNCHANGED <<cfgvars, hdlvars, ctxvars, phase, drop_locks, list_lock_type,
                   list_i, upd_ret, dotvars, os_held, call, tokens, stale_tokens,
                   last_cb>>

(***************************************************************************)
(* After mbox_lock_list returned: the rest of mbox_update_locking,         *)
(* mbox_unlock_files, mbox_lock and mbox_unlock                            *)
(***************************************************************************)
ListFinished(p) ==
    \/ pc[p] = "listret"
    \/ pc[p] = "list" /\ CurType(p) = LIST_END

\* ibox->mbox_lock_type after mbox_unlock_files
UnlockFilesLevelMut(level) == level

UnlockFilesLevel(level) == F_UNLCK

\* mbox_lock_id after a fresh acquisition (mbox_lock)
AcquireEpoch(lock_id) == lock_id + 2

\* mbox_lock_id after mbox_unlock_files
ReleaseEpochMut(lock_id) == lock_id

ReleaseEpoch(lock_id) == lock_id + 2

\* what mbox_unlock returns for the result of its callee
UnlockRet(r) == IF r < 0 THEN -1 ELSE 0

\* the acquisition failed and nothing is being dropped: mbox_unlock_files
AcquireFailed(p) ==
    /\ phase[p] \in {"lock", "demote"}
    /\ ListFinished(p)
    /\ ret[p] <= 0
    /\ ~drop_locks[p]
    /\ upd_ret' = [upd_ret EXCEPT ![p] = ret[p]]
    /\ EnterList(p, IF phase[p] = "lock" THEN "lock_unwind" ELSE "demote_unwind",
                 F_UNLCK, lock_status[p])
    /\ UNCHANGED <<cfgvars, hdlvars, checked_file, dotlock_last_stale, drop_locks,
                   dotvars, os_held, oserrs, histvars>>

\* mbox_unlock_files is through; the failed call returns
UnwindDone(p) ==
    /\ phase[p] \in {"lock_unwind", "demote_unwind"}
    /\ ListFinished(p)
    /\ mbox_lock_id' = [mbox_lock_id EXCEPT ![p] = ReleaseEpoch(@)]
    /\ mbox_lock_type' = [mbox_lock_type EXCEPT ![p] = UnlockFilesLevel(@)]
    /\ call' = [call EXCEPT ![p] =
           Returned(@, IF phase[p] = "lock_unwind" THEN upd_ret[p]
                       ELSE UnlockRet(upd_ret[p]), 0)]
    /\ Leave(p)
    /\ UNCHANGED <<cfgvars, mbox_shared_locks, mbox_excl_locks, mbox_dotlock_ino,
                   os_held, oserrs, tokens, stale_tokens>>

\* the acquisition succeeded: mbox_lock advances the epoch and issues a token
AcquireDone(p) ==
    LET id == AcquireEpoch(mbox_lock_id[p])
        tok == IF list_lock_type[p] = F_RDLCK THEN id ELSE id + 1
    IN  /\ phase[p] = "lock"
        /\ ListFinished(p)
        /\ ret[p] > 0
        /\ mbox_lock_id' = [mbox_lock_id EXCEPT ![p] = id]
        /\ mbox_shared_locks' = [mbox_shared_locks EXCEPT ![p] =
               IF list_lock_type[p] = F_RDLCK THEN @ + 1 ELSE @]
        /\ mbox_excl_locks' = [mbox_excl_locks EXCEPT ![p] =
               IF list_lock_type[p] = F_RDLCK THEN @ ELSE @ + 1]
        /\ tokens' = [tokens EXCEPT ![p] = @ \cup {tok}]
        /\ call' = [call EXCEPT ![p] = Returned(@, 1, tok)]
        /\ Leave(p)
        /\ UNCHANGED <<cfgvars, mbox_lock_type, mbox_dotlock_ino, os_held, oserrs,
                       stale_tokens>>

\* the demotion's first pass failed: mbox_update_locking returns ret
DemoteFailed(p) ==
    /\ phase[p] = "demote"
    /\ ListFinished(p)
    /\ ret[p] <= 0
    /\ drop_locks[p]
    /\ call' = [call EXCEPT ![p] = Returned(@, UnlockRet(ret[p]), 0)]
    /\ Leave(p)
    /\ UNCHANGED <<cfgvars, hdlvars, os_held, oserrs, tokens, stale_tokens>>

\* the demotion's first pass succeeded: drop the write-only locks
DemoteDrop(p) ==
    /\ phase[p] = "demote"
    /\ ListFinished(p)
    /\ ret[p] > 0
    /\ drop_locks[p]
    /\ mbox_lock_type' = [mbox_lock_type EXCEPT ![p] = F_WRLCK]
    /\ EnterList(p, "drop", F_UNLCK, DropStatus)
    /\ UNCHANGED <<cfgvars, mbox_shared_locks, mbox_excl_locks, mbox_lock_id,
                   mbox_dotlock_ino, checked_file, dotlock_last_stale, drop_locks,
                   upd_ret, dotvars, os_held, oserrs, histvars>>

\* the drop pass is through (its result is ignored): level Shared
DropDone(p) ==
    /\ \/ phase[p] = "drop" /\ ListFinished(p)
       \/ phase[p] = "demote" /\ ListFinished(p) /\ ret[p] > 0 /\ ~drop_locks[p]
    /\ mbox_lock_type' = [mbox_lock_type EXCEPT ![p] = F_RDLCK]
    /\ call' = [call EXCEPT ![p] = Returned(@, 0, 0)]
    /\ Leave(p)
    /\ UNCHANGED <<cfgvars, mbox_shared_locks, mbox_excl_locks, mbox_lock_id,
                   mbox_dotlock_ino, os_held, oserrs, tokens, stale_tokens>>

\* the full release is through: mbox_unlock_files advances the epoch
ReleaseDone(p) ==
    /\ phase[p] = "release"
    /\ ListFinished(p)
    /\ mbox_lock_id' = [mbox_lock_id EXCEPT ![p] = ReleaseEpoch(@)]
    /\ mbox_lock_type' = [mbox_lock_type EXCEPT ![p] = UnlockFilesLevel(@)]
    /\ stale_tokens' = [stale_tokens EXCEPT ![p] = @ \cup tokens[p]]
    /\ tokens' = [tokens EXCEPT ![p] = {}]
    /\ call' = [call EXCEPT ![p] = Returned(@, UnlockRet(ret[p]), 0)]
    /\ Leave(p)
    /\ UNCHANGED <<cfgvars, mbox_shared_locks, mbox_excl_locks, mbox_dotlock_ino,
                   os_held, oserrs>>

(***************************************************************************)
(* The lock/unlock specification                                           *)
(***************************************************************************)
InitWith(cs, bs) ==
    /\ \E c \in cs : read_locks = c[1] /\ write_locks = c[2]
    /\ beyond \in bs
    /\ SettingsValid(read_locks, write_locks)
    /\ lock_settings_initialized = "yes"
    /\ InitProcs

\* under Configs, FlockConfigs, LockfConfigs and ProbeConfigs no walk
\* leaves the arrays (WalkInBounds)
Init == InitWith(Configs, {ZeroBeyond})

InitFlock == InitWith(FlockConfigs, {ZeroBeyond})

InitLockf == InitWith(LockfConfigs, {ZeroBeyond})

InitProbe ==
    \/ InitWith(ProbeConfigs, {ZeroBeyond})
    \/ InitWith(BeyondConfigs, AllBeyond)

\* the tokens a caller can pass to mbox_unlock: those mbox_lock gave it
TokenInputs(p) == tokens[p] \cup stale_tokens[p]

Next ==
    \E p \in Procs :
        \/ \E lock_type \in {F_RDLCK, F_WRLCK} : MboxLock(p, lock_type)
        \/ \E lock_id \in TokenInputs(p) : MboxUnlock(p, lock_id)
        \/ FdApply(p)
        \/ \E expired \in BOOLEAN : FdTimeout(p, expired)
        \/ \E oserr \in {"open", "sys"} : FdFail(p, oserr)
        \/ DotlockRelease(p)
        \/ \E openerr \in BOOLEAN : DotlockLock(p, openerr)
        \/ \E stale \in {0, 1} : dotlock_callback(p, stale)
        \/ \E oserr \in {"none", "open", "sys"} : dotlock_probe(p, oserr)
        \/ \E openerr \in BOOLEAN : DotlockCreate(p, openerr)
        \/ \E openerr \in BOOLEAN : DotlockOverride(p, openerr)
        \/ \E r \in {0, -1} : DotlockGiveUp(p, r)
        \/ AcquireFailed(p)
        \/ UnwindDone(p)
        \/ AcquireDone(p)
        \/ DemoteFailed(p)
        \/ DemoteDrop(p)
        \/ DropDone(p)
        \/ ReleaseDone(p)

\* no walk of a list reads a slot outside the array
WalkInBounds ==
    \A p \in Procs :
        /\ pc[p] = "list" => CurIdx(p) <= MBOX_LOCK_COUNT
        /\ pc[p] = "probe" => ProbeAt(p) <= MBOX_LOCK_COUNT

Spec == Init /\ [][Next]_vars

SpecFlock == InitFlock /\ [][Next]_vars

SpecLockf == InitLockf /\ [][Next]_vars

SpecProbe == InitProbe /\ [][Next]_vars

(***************************************************************************)
(* Properties                                                              *)
(***************************************************************************)
\* the handle is between two API calls
AtRest(p) == pc[p] \in {"idle", "aborted"}

Refs(p) == mbox_shared_locks[p] + mbox_excl_locks[p]

NothingHeld(p) ==
    /\ mbox_dotlock_ino[p] = 0
    /\ \A t \in LockTypes : os_held[p][t] = F_UNLCK

\* C1: between API calls the lock level is F_UNLCK exactly when both
\* reference counts are zero; in particular after an acquisition that timed
\* out or failed the level is F_UNLCK and no reference is counted.
C1_LevelNoneIffNoRefs ==
    \A p \in Procs :
        AtRest(p) => (mbox_lock_type[p] = F_UNLCK <=> Refs(p) = 0)

\* a failed acquisition returned on a handle that had been locked and
\* released before
C1_Witness ==
    \E p \in Procs :
        /\ pc[p] = "idle"
        /\ call[p].op = "lock" /\ call[p].st = "returned" /\ call[p].ret <= 0
        /\ call[p].id0 > 0
        /\ mbox_lock_type[p] = F_UNLCK /\ Refs(p) = 0

\* C2: a token issued before a full release never passes the epoch check of
\* mbox_unlock afterwards: its epoch differs from the handle's, and an
\* mbox_unlock called with it ends in the assertion failure.
C2_StaleTokenRejected ==
    \A p \in Procs :
        /\ \A t \in stale_tokens[p] : mbox_lock_id[p] # ClearLow(t)
        /\ (call[p].op = "unlock" /\ call[p].stale_arg) => call[p].st = "assert"

\* a stale token was passed to mbox_unlock while the handle was locked again
C2_Witness ==
    \E p \in Procs :
        /\ call[p].op = "unlock" /\ call[p].stale_arg /\ call[p].st = "assert"
        /\ tokens[p] # {}
        /\ mbox_lock_type[p] # F_UNLCK

\* the backends named in both lists
Common ==
    {t \in LockTypes :
        /\ \E k \in 1 .. Len(read_locks) : read_locks[k] = t
        /\ \E k \in 1 .. Len(write_locks) : write_locks[k] = t}

\* mbox_update_locking(F_RDLCK) runs from level F_WRLCK
InDemotion(p) == phase[p] \in {"demote", "drop"} /\ drop_locks[p]

\* C3 (first half): during a demotion no backend common to both lists is
\* called with target F_UNLCK.
C3_NoCommonRelease ==
    \A p \in Procs :
        InDemotion(p) =>
            \A k \in 1 .. Len(calls[p]) :
                calls[p][k].type \in Common => calls[p][k].lock_type # F_UNLCK

\* C3: during a demotion no backend common to both lists is called with
\* target F_UNLCK, and each such backend is held in every intermediate
\* state of the demotion.
C3_CommonHeldThroughDemotion ==
    \A p \in Procs :
        InDemotion(p) =>
            /\ \A k \in 1 .. Len(calls[p]) :
                   calls[p][k].type \in Common => calls[p][k].lock_type # F_UNLCK
            /\ \A t \in Common : os_held[p][OsSlot(t)] # F_UNLCK

\* C4: a stale report delivered to dotlock_callback while a live process
\* holds another backend of the list never lets the dotlock be overridden.
C4_NoOverrideOfLiveHolder ==
    \A p \in Procs :
        (last_cb[p].stale = 1 /\ last_cb[p].live) => ~last_cb[p].cont

\* C5: after mbox_lock failed on an Unlocked handle that held nothing, the
\* process holds no backend, the level is F_UNLCK, both reference counts
\* are zero and no token was issued.
C5_FailedLockLeavesNothing ==
    \A p \in Procs :
        (/\ pc[p] = "idle"
         /\ call[p].op = "lock" /\ call[p].st = "returned" /\ call[p].ret <= 0
         /\ call[p].level0 = F_UNLCK /\ call[p].clean0)
        => /\ NothingHeld(p)
           /\ mbox_lock_type[p] = F_UNLCK
           /\ Refs(p) = 0
           /\ call[p].token = 0

\* the backend p is blocked on (LIST_END: none)
WaitsOn(p) ==
    IF pc[p] = "dotwait" /\ DotlockHeldByOther(p) THEN MBOX_LOCK_DOTLOCK
    ELSE IF /\ pc[p] = "list"
            /\ CurType(p) \in FdTypes
            /\ list_lock_type[p] # F_UNLCK
            /\ ~NonBlock(p)
            /\ Conflict(p, CurType(p), OsMode(CurType(p), list_lock_type[p]))
    THEN CurType(p)
    ELSE LIST_END

\* p waits for a backend q holds while q waits for a backend p holds
CrossWait(p, q) ==
    /\ p # q
    /\ WaitsOn(p) # LIST_END /\ WaitsOn(q) # LIST_END
    /\ os_held[q][OsSlot(WaitsOn(p))] # F_UNLCK
    /\ os_held[p][OsSlot(WaitsOn(q))] # F_UNLCK

\* C6: no state is reached in which one process is blocked on a backend the
\* other holds while the other is blocked on a backend the first holds
\* (in runs where no lock syscall, stat or open failed).
C6_NoCrossDeadlock ==
    oserrs = 0 => \A p \in Procs : \A q \in Procs : ~CrossWait(p, q)

\* p enters an API call in this step
CallStarts(p) == pc[p] = "idle" /\ call'[p] # call[p]

\* the step touches nothing of p but a reference count
OnlyRefMoves(p) ==
    /\ pc'[p] = "idle"
    /\ mbox_lock_type'[p] = mbox_lock_type[p]
    /\ os_held'[p] = os_held[p]
    /\ mbox_dotlock_ino'[p] = mbox_dotlock_ino[p]
    /\ calls'[p] = <<>>

C7Step(p) ==
    /\ (CallStarts(p) /\ call'[p].op = "lock" /\ call'[p].arg = F_RDLCK
        /\ mbox_excl_locks[p] = 0)
       => IF mbox_shared_locks[p] = 0
          THEN mbox_lock_type[p] = F_UNLCK /\ mbox_lock_type'[p] = F_RDLCK
               /\ phase'[p] = "lock"
          ELSE OnlyRefMoves(p) /\ mbox_lock_type[p] = F_RDLCK
               /\ mbox_shared_locks'[p] = mbox_shared_locks[p] + 1
    /\ (CallStarts(p) /\ call'[p].op = "unlock" /\ call'[p].st # "assert"
        /\ mbox_excl_locks[p] = 0)
       => IF mbox_shared_locks[p] = 1
          THEN phase'[p] = "release"
          ELSE OnlyRefMoves(p) /\ mbox_lock_type[p] = F_RDLCK
               /\ mbox_shared_locks'[p] = mbox_shared_locks[p] - 1
    /\ (phase[p] = "release" /\ pc'[p] = "idle")
       => mbox_lock_type'[p] = F_UNLCK /\ Refs(p) = 0
    /\ (mbox_lock_type[p] = F_UNLCK /\ mbox_lock_type'[p] # F_UNLCK)
       => CallStarts(p) /\ Refs(p) = 0

\* C7: while only shared tokens are out, the backends are acquired by the
\* lock call that finds no reference and released by the unlock call that
\* drops the last one; every other lock or unlock call moves a reference
\* count and nothing else, so N locks and N unlocks leave and re-enter
\* level F_UNLCK once.
C7_SharedLocksCounted == [][\A p \in Procs : C7Step(p)]_vars

\* the first of two shared tokens was given back: still level F_RDLCK
C7_Witness ==
    \E p \in Procs :
        /\ pc[p] = "idle"
        /\ call[p].op = "unlock" /\ call[p].st = "returned"
        /\ call[p].shared0 = 2 /\ call[p].excl0 = 0
        /\ mbox_shared_locks[p] = 1
        /\ mbox_lock_type[p] = F_RDLCK
        /\ os_held[p][MBOX_LOCK_FCNTL] = F_RDLCK

\* rl is wl with entries left out: every entry of rl is in wl, in the
\* same relative order
IsOrderedSubseq(rl, wl) ==
    /\ \A i \in 1 .. Len(rl) : \E k \in 1 .. Len(wl) : wl[k] = rl[i]
    /\ \A i \in 1 .. Len(rl) : \A j \in 1 .. Len(rl) :
           i < j => \E a \in 1 .. Len(wl) : \E b \in 1 .. Len(wl) :
                        a < b /\ wl[a] = rl[i] /\ wl[b] = rl[j]

\* C8: mbox_init_lock_settings accepts two duplicate-free lists exactly
\* when the read list is an order-preserving subsequence of the write
\* list.
C8_ValidIffSubsequence ==
    lock_settings_initialized # "no" =>
        (lock_settings_initialized = "yes"
            <=> IsOrderedSubseq(read_locks, write_locks))

\* read [dotlock, fcntl] against write [fcntl, dotlock, flock] was refused
C8_Witness ==
    /\ lock_settings_initialized = "fatal"
    /\ read_locks = <<MBOX_LOCK_DOTLOCK, MBOX_LOCK_FCNTL>>
    /\ write_locks = <<MBOX_LOCK_FCNTL, MBOX_LOCK_DOTLOCK, MBOX_LOCK_FLOCK>>

\* C9: between API calls the level is F_WRLCK exactly when exclusive
\* tokens are out, also after a demotion that timed out or failed.
C9_ExclusiveIffExclRefs ==
    \A p \in Procs :
        AtRest(p) => (mbox_lock_type[p] = F_WRLCK <=> mbox_excl_locks[p] > 0)

\* a demotion failed: mbox_unlock returned -1 for the last exclusive token
C9_Witness ==
    \E p \in Procs :
        /\ pc[p] = "idle"
        /\ call[p].op = "unlock" /\ call[p].st = "returned" /\ call[p].ret = -1
        /\ call[p].level0 = F_WRLCK /\ call[p].excl0 = 1
        /\ mbox_shared_locks[p] > 0
        /\ mbox_lock_type[p] = F_RDLCK

\* the level changes one API call can make
LevelSteps ==
    { <<F_UNLCK, F_RDLCK>>, <<F_UNLCK, F_WRLCK>>, <<F_WRLCK, F_RDLCK>>,
      <<F_RDLCK, F_UNLCK>>, <<F_WRLCK, F_UNLCK>> }

\* C10: mbox_lock(F_WRLCK) at level F_RDLCK dies in the assertion and
\* leaves the level, both reference counts and the epoch as they were; an
\* API call changes the level only from F_UNLCK to F_RDLCK or F_WRLCK,
\* from F_WRLCK to F_RDLCK, or from either to F_UNLCK.
C10_NoUpgrade ==
    \A p \in Procs :
        /\ (call[p].op = "lock" /\ call[p].arg = F_WRLCK
            /\ call[p].level0 = F_RDLCK)
           => /\ call[p].st = "assert" /\ pc[p] = "aborted"
              /\ call[p].token = 0
              /\ mbox_lock_type[p] = call[p].level0
              /\ mbox_shared_locks[p] = call[p].shared0
              /\ mbox_excl_locks[p] = call[p].excl0
              /\ mbox_lock_id[p] = call[p].id0
        /\ (AtRest(p) /\ call[p].st # "none")
           => \/ mbox_lock_type[p] = call[p].level0
              \/ <<call[p].level0, mbox_lock_type[p]>> \in LevelSteps

\* an exclusive lock was requested on a handle holding shared tokens only
C10_Witness ==
    \E p \in Procs :
        /\ pc[p] = "aborted"
        /\ call[p].op = "lock" /\ call[p].arg = F_WRLCK
        /\ call[p].level0 = F_RDLCK /\ call[p].shared0 > 0

\* the backend calls a process has logged in its running session
Logged(p) == { calls[p][k] : k \in 1 .. Len(calls[p]) }

\* a call of an fd backend that met no OS error
CleanFdCall(e) ==
    e.type \in FdTypes /\ e.lock_type # F_UNLCK /\ ~e.oserr /\ e.chk # "fail"

\* C11: a backend applied without a deadline (max_wait_time == 0) to a lock
\* that another process holds in a conflicting mode returns 0 (would
\* block), not -1 (failed), and does not wait.
C11_NoDeadlineWouldBlock ==
    \A p \in Procs : \A e \in Logged(p) :
        (CleanFdCall(e) /\ e.nonblock /\ e.conflict)
            => e.ret = 0 /\ ~e.waited

\* C12: a blocking acquisition that meets a conflicting lock when its
\* deadline has passed already returns 0 (timeout) without entering a
\* blocking wait or a sleep, for fcntl, flock and lockf alike.
C12_ExpiredDeadlineNoWait ==
    \A p \in Procs : \A e \in Logged(p) :
        (CleanFdCall(e) /\ ~e.nonblock /\ e.conflict /\ e.expired)
            => e.ret = 0 /\ ~e.waited

\* a call that only counts a reference: no backend is invoked, the level,
\* the epoch and what is held stay, shared and excl move by ds and de
RefOnly(p, ds, de) ==
    /\ OnlyRefMoves(p)
    /\ mbox_lock_id'[p] = mbox_lock_id[p]
    /\ lock_status'[p] = lock_status[p]
    /\ mbox_shared_locks'[p] = mbox_shared_locks[p] + ds
    /\ mbox_excl_locks'[p] = mbox_excl_locks[p] + de

C13Step(p) ==
    /\ (CallStarts(p) /\ call'[p].op = "lock" /\ call'[p].st # "assert"
        /\ mbox_lock_type[p] # F_UNLCK)
       => IF call'[p].arg = F_RDLCK THEN RefOnly(p, 1, 0) ELSE RefOnly(p, 0, 1)
    /\ (CallStarts(p) /\ call'[p].op = "unlock" /\ call'[p].st # "assert"
        /\ call'[p].id % 2 = 1 /\ mbox_excl_locks[p] > 1)
       => RefOnly(p, 0, -1)
    /\ (CallStarts(p) /\ call'[p].op = "unlock" /\ call'[p].st # "assert"
        /\ call'[p].id % 2 = 0
        /\ (mbox_shared_locks[p] > 1 \/ mbox_excl_locks[p] > 0))
       => RefOnly(p, -1, 0)

\* C13: mbox_lock at a level other than F_UNLCK, and mbox_unlock that
\* leaves its own reference count above zero (or drops the last shared
\* token while exclusive ones are out), invoke no backend, leave the level
\* and the epoch unchanged and change only the matching count, by one.
C13_RefCountedCallsTouchNothing == [][\A p \in Procs : C13Step(p)]_vars

\* the last shared token was given back while an exclusive one is out
C13_Witness ==
    \E p \in Procs :
        /\ pc[p] = "idle"
        /\ call[p].op = "unlock" /\ call[p].st = "returned"
        /\ call[p].id % 2 = 0
        /\ call[p].shared0 = 1 /\ call[p].excl0 = 1
        /\ mbox_shared_locks[p] = 0 /\ mbox_excl_locks[p] = 1
        /\ mbox_lock_type[p] = F_WRLCK
        /\ mbox_lock_id[p] = call[p].id0
        /\ os_held[p][MBOX_LOCK_FCNTL] = F_WRLCK

\* the logged calls of one pass of mbox_lock_list, in call order
PassCalls(p, ph, cb, lock_type) ==
    SelectSeq(calls[p],
              LAMBDA e : e.phase = ph /\ e.cb = cb /\ e.lock_type = lock_type)

\* the position the running pass has come to
PassedIdx(p) == IF pc[p] = "list" THEN CurIdx(p) ELSE list_i[p]

\* the positions of the running pass's list that were passed by uncalled
SkippedIdx(p) ==
    { m \in 0 .. PassedIdx(p) - 1 :
        \A e \in Logged(p) :
            ~(e.phase = phase[p] /\ e.lock_type = list_lock_type[p] /\ e.i = m) }

\* C14: mbox_lock_list calls the backends in list order from its start
\* index, passes by exactly those whose recorded status equals the target,
\* calls no further backend after the first result 0 or -1, and returns
\* that result.
C14_ListOrderAndStop ==
    \A p \in Procs :
        LET lg == calls[p]
            cur == PassCalls(p, phase[p], 0, list_lock_type[p])
        IN  /\ \A j \in 1 .. Len(lg) : \A k \in 1 .. Len(lg) :
                   (j < k /\ lg[j].phase = lg[k].phase /\ lg[j].cb = lg[k].cb
                    /\ lg[j].lock_type = lg[k].lock_type)
                       => lg[j].i < lg[k].i /\ lg[j].ret = 1
            /\ \A k \in 1 .. Len(lg) :
                   /\ lg[k].had # Want(lg[k].lock_type)
                   /\ lg[k].phase = "probe"
                      => /\ lg[k].type = At(CurList(p), lg[k].i)
                         /\ (pc[p] = "probe" /\ lg[k].cb = ncallbacks[p])
                            => lg[k].i >= probe[p].idx
                         /\ (pc[p] # "probe" /\ last_cb[p].probed
                             /\ lg[k].cb = ncallbacks[p])
                            => lg[k].i >= last_cb[p].idx
            /\ pc[p] = "probe"
               => LET pr == PassCalls(p, "probe", ncallbacks[p], ctx_lock_type[p])
                  IN  /\ probe[p].ret = IF Len(pr) = 0 THEN 0 ELSE pr[Len(pr)].ret
                      /\ probe[p].stopped
                             <=> (Len(pr) > 0 /\ ListStops(pr[Len(pr)].ret))
            /\ pc[p] \in {"list", "listret", "dotwait", "probe"}
               => /\ \A k \in 1 .. Len(cur) : cur[k].type = At(CurList(p), cur[k].i)
                  /\ \A m \in SkippedIdx(p) :
                         lock_status[p][At(CurList(p), m)] = Want(list_lock_type[p])
                  /\ pc[p] = "listret"
                     => /\ Len(cur) > 0
                        /\ cur[Len(cur)].ret = ret[p]
                        /\ cur[Len(cur)].i = list_i[p]
                        /\ ListStops(ret[p])
                  /\ (pc[p] = "list" /\ CurType(p) = LIST_END)
                     => ret[p] = IF Len(cur) = 0 THEN 0 ELSE 1
            /\ (pc[p] = "dotwait" /\ last_cb[p].probed)
               => LET pr == PassCalls(p, "probe", ncallbacks[p], list_lock_type[p])
                  IN  last_cb[p].probe_ret =
                          IF Len(pr) = 0 THEN 0 ELSE pr[Len(pr)].ret

\* the acquiring pass stopped at a backend that returned 0 with a later
\* backend still to come, and the releasing pass after it went by that
\* backend, whose status was never set
C14_Witness ==
    \E p \in Procs :
        /\ pc[p] = "list" /\ phase[p] = "lock_unwind" /\ CurType(p) = LIST_END
        /\ \E e \in Logged(p) :
               /\ e.phase = "lock" /\ e.ret = 0
               /\ e.i < Len(CurList(p)) - 1
               /\ e.i + 1 \in SkippedIdx(p)
        /\ Len(PassCalls(p, "lock_unwind", 0, F_UNLCK)) = 2

InRead(t) == \E k \in 1 .. Len(read_locks) : read_locks[k] = t

\* the demotion returns after its drop pass, every backend call of the
\* demoting and of the dropping pass having returned 1
DemotionSucceeds(p) ==
    /\ phase[p] = "drop" /\ pc'[p] = "idle"
    /\ \A e \in Logged(p) : e.ret = 1

C15Step(p) ==
    DemotionSucceeds(p)
        => /\ \A t \in LockTypes :
                  InRead(t) => os_held'[p][OsSlot(t)] = OsMode(t, F_RDLCK)
           /\ \A s \in LockTypes :
                  (\A t \in LockTypes : InRead(t) => OsSlot(t) # s)
                      => os_held'[p][s] = F_UNLCK
           /\ mbox_dotlock_ino'[p] = 0
           /\ mbox_lock_type'[p] = F_RDLCK
           /\ mbox_lock_id'[p] = call[p].id0
           /\ mbox_lock_id'[p] = mbox_lock_id[p]
           /\ call'[p].ret = 0

\* C15: when a demotion returns with every backend call having succeeded,
\* exactly the backends of the read order are held, each in shared mode,
\* the backends of the write order alone are released, the level is
\* F_RDLCK and the epoch is the one from before the call.
C15_DemotionKeepsReadOrder == [][\A p \in Procs : C15Step(p)]_vars

\* C16: when dotlock_callback has probed and no probed backend refused,
\* every backend of the walked order other than the dotlock has been
\* attempted by then, in the pass before the dotlock or non-blockingly in
\* the probe, whatever the position of the dotlock in the order.
C16_ProbeCoversOrder ==
    \A p \in Procs :
        (/\ pc[p] = "dotwait" /\ last_cb[p].probed
         /\ \A e \in Logged(p) : e.phase = "probe" => e.ret = 1)
            => \A k \in 1 .. Len(CurList(p)) :
                   CurList(p)[k] # MBOX_LOCK_DOTLOCK
                       => \E e \in Logged(p) :
                              /\ e.type = CurList(p)[k]
                              /\ e.lock_type = list_lock_type[p]

\* the logged calls of the running session whose identity check came out as
\* one of outcomes
Checks(p, outcomes) == { k \in 1 .. Len(calls[p]) : calls[p][k].chk \in outcomes }

\* C17 as stated: within one lock session the file identity check is
\* performed at most once, whatever the backends and probes, and never by a
\* release call.
C17_CheckAtMostOnce ==
    \A p \in Procs :
        /\ Cardinality(Checks(p, {"ok", "fail"})) <= 1
        /\ \A k \in Checks(p, {"ok", "fail"}) : calls[p][k].lock_type # F_UNLCK

\* C17, amended: within one lock session the file identity check succeeds
\* at most once and is never run by a release call; a check that fails
\* makes its backend call return -1 and leaves the session unchecked, so
\* the next acquiring backend call runs it again.
C17_CheckSucceedsAtMostOnce ==
    \A p \in Procs :
        /\ Cardinality(Checks(p, {"ok"})) <= 1
        /\ \A k \in Checks(p, {"ok", "fail"}) : calls[p][k].lock_type # F_UNLCK
        /\ \A k \in Checks(p, {"fail"}) : calls[p][k].ret = -1
        /\ checked_file[p] <=> Checks(p, {"ok"}) # {}

\* the check failed inside the probe and ran again, successfully, once the
\* dotlock was obtained
C17_Witness ==
    \E p \in Procs :
        /\ Checks(p, {"fail"}) # {} /\ Checks(p, {"ok"}) # {}
        /\ \E k \in Checks(p, {"fail"}) : calls[p][k].phase = "probe"
        /\ checked_file[p]
        /\ pc[p] = "list"

\* mbox_lock is about to return 1 after an acquisition from F_UNLCK
LockSucceeds(p) == phase[p] = "lock" /\ ListFinished(p) /\ ret[p] > 0

\* C18: whenever mbox_lock returns 1 after acquiring from F_UNLCK, every
\* fcntl, flock or lockf backend of the selected order is held by the
\* process at the OS in the requested mode; a backend the stale-dotlock
\* probe failed to lock is not left marked as locked and passed by once the
\* dotlock is obtained.  (The dotlock, which another process may take
\* over, is left out here.)
C18_SuccessMeansAllHeld ==
    \A p \in Procs :
        LockSucceeds(p)
            => \A k \in 1 .. Len(CurList(p)) :
                   CurList(p)[k] \in FdTypes
                       => os_held[p][OsSlot(CurList(p)[k])]
                              = OsMode(CurList(p)[k], list_lock_type[p])

\* C19: with read order fcntl and write order dotlock, fcntl, whatever two
\* processes do, no handle is at level F_WRLCK between its calls while the
\* other's is at level F_RDLCK or F_WRLCK between its calls.
C19_ExclusiveExcludes ==
    \A p \in Procs : \A q \in Procs \ {p} :
        (pc[p] = "idle" /\ pc[q] = "idle" /\ mbox_lock_type[p] = F_WRLCK)
            => mbox_lock_type[q] = F_UNLCK

\* C20: a handle that is at level F_UNLCK after an mbox_unlock that
\* returned 0 holds no backend lock: no dotlock file and no fcntl, flock or
\* lockf lock; the full release after a demotion that failed or timed out
\* releases the locks of the write order as well.
C20_UnlockedHoldsNothing ==
    \A p \in Procs :
        (/\ pc[p] = "idle" /\ mbox_lock_type[p] = F_UNLCK
         /\ call[p].op = "unlock" /\ call[p].st = "returned" /\ call[p].ret = 0)
            => NothingHeld(p)

====
